---- MODULE Spec2Model ----
(***************************************************************************)
(* A model of nytScraper.py: the request builder NYTArticleRequest, the    *)
(* paced pagination loop issueNYTRequests and the per-page parser and      *)
(* scraper parseNYTResponse.                                               *)
(*                                                                         *)
(* Strings are sequences of tokens (<<"KEY">>, <<"2","0","2","0">>), so    *)
(* that joining, formatting and splitting are computed, not assumed.       *)
(* Time is counted in ticks of 0.1 s, the polling interval of the limiter. *)
(***************************************************************************)
EXTENDS Integers, Sequences, FiniteSets, TLC

VARIABLES
    input,        \* arguments of issueNYTRequests
    hashOrder,    \* iteration order of the nyt_args dict in this process
    server,       \* behaviour of the remote side during this run
    now,          \* wall clock, in ticks
    pc,           \* position of issueNYTRequests
    num_pages,    \* local num_pages, after the cap
    i,            \* loop index of issueNYTRequests
    req_start,    \* pacing epoch
    t_elapse,     \* last elapsed time computed by the limiter
    cur_request,  \* nyt_args of the current NYTArticleRequest
    all_stories,  \* accumulated records
    content,      \* decoded response of the current page
    k,            \* position of parseNYTResponse in content's docs
    stories,      \* records of the current page
    result,       \* value returned by issueNYTRequests, if any
    failure,      \* what raised the uncaught exception, if any
    searchLog,    \* search-API GETs issued so far
    articleLog,   \* article-page GETs issued so far
    printed,      \* failure reports printed so far
    pageLog       \* outcome of every page iteration completed so far

vars == <<input, hashOrder, server, now, pc, num_pages, i, req_start,
          t_elapse, cur_request, all_stories, content, k, stories, result,
          failure, searchLog, articleLog, printed, pageLog>>

(***************************************************************************)
(* Bounds of the model.                                                    *)
(***************************************************************************)
MaxPages == 2
VariedPages == 1
MaxDocs == 2
BigNumPages == 500
MaxLatency == 4
MaxTime == 12
MaxTimedPages == 11

(***************************************************************************)
(* Program constants.                                                      *)
(***************************************************************************)
API_MAX_CALLS_PER_DAY == 100
API_MAX_CALLS_PER_SEC == 5
OneSecond == 10
SleepTicks == 1

NYT_API_URL == <<"https://api.nytimes.com/svc/search/v2/articlesearch.json">>

(***************************************************************************)
(* Optional values (None or a value) and Python truthiness of them.        *)
(***************************************************************************)
None == [some |-> FALSE, val |-> <<>>]
Some(v) == [some |-> TRUE, val |-> v]
Truthy(o) == o.some /\ o.val # <<>>

Range(s) == { s[n] : n \in 1..Len(s) }

(***************************************************************************)
(* String helpers.                                                         *)
(***************************************************************************)
DigitChar == <<"0", "1", "2", "3", "4", "5", "6", "7", "8", "9">>

RECURSIVE str(_)
str(n) == IF n < 10 THEN <<DigitChar[n + 1]>>
          ELSE str(n \div 10) \o <<DigitChar[(n % 10) + 1]>>

RECURSIVE ZeroPad(_, _)
ZeroPad(s, width) == IF Len(s) >= width THEN s ELSE ZeroPad(<<"0">> \o s, width)

\* date.strftime('%Y%m%d') of the date <<year, month, day>>
strftime(d) == ZeroPad(str(d[1]), 4) \o ZeroPad(str(d[2]), 2) \o ZeroPad(str(d[3]), 2)

RECURSIVE join(_, _)
join(sep, parts) ==
    IF parts = <<>> THEN <<>>
    ELSE IF Len(parts) = 1 THEN parts[1]
    ELSE parts[1] \o sep \o join(sep, Tail(parts))

(***************************************************************************)
(* NYTArticleRequest.  nyt_args is a dict: a function from its keys to     *)
(* their values.  A Python 2 dict iterates in the order of its hash table, *)
(* which the language leaves unspecified: order is the order of this       *)
(* process for the keys of the request.                                    *)
(***************************************************************************)
InsertionOrder == <<"api-key", "q", "page", "fl", "begin_date", "end_date">>

\* the same with the test on fields dropped
RequestKeysAlwaysFields(fields, begin_date, end_date) ==
    {"api-key", "q", "page", "fl"}
        \cup (IF Truthy(begin_date) THEN {"begin_date"} ELSE {})
        \cup (IF Truthy(end_date) THEN {"end_date"} ELSE {})

RequestKeys(fields, begin_date, end_date) ==
    {"api-key", "q", "page"}
        \cup (IF Truthy(fields) THEN {"fl"} ELSE {})
        \cup (IF Truthy(begin_date) THEN {"begin_date"} ELSE {})
        \cup (IF Truthy(end_date) THEN {"end_date"} ELSE {})

NYTArticleRequest(api_key, query, page, begin_date, end_date, fields) ==
    [key \in RequestKeys(fields, begin_date, end_date) |->
        CASE key = "api-key" -> api_key
          [] key = "q" -> query
          [] key = "page" -> str(page)
          [] key = "fl" -> fields.val
          [] key = "begin_date" -> strftime(begin_date.val)
          [] key = "end_date" -> strftime(end_date.val)]

RECURSIVE SelectKeys(_, _)
SelectKeys(order, keys) ==
    IF order = <<>> THEN <<>>
    ELSE IF Head(order) \in keys THEN <<Head(order)>> \o SelectKeys(Tail(order), keys)
    ELSE SelectKeys(Tail(order), keys)

\* nyt_args.items(): the (key, value) pairs in the dict's iteration order
items(nyt_args, order) ==
    LET ks == SelectKeys(order, DOMAIN nyt_args)
    IN [n \in 1..Len(ks) |-> <<ks[n], nyt_args[ks[n]]>>]

\* NYTArticleRequest.__repr__
Repr(nyt_args, order) ==
    LET its == items(nyt_args, order)
        url_args == [n \in 1..Len(its) |-> <<its[n][1], "=">> \o its[n][2]]
    IN NYT_API_URL \o <<"?">> \o join(<<"&">>, url_args)

(***************************************************************************)
(* parseNYTResponse: extraction of one document.                           *)
(***************************************************************************)
IsDigit(c) == \E d \in 1..10 : DigitChar[d] = c
DigitVal(c) == (CHOOSE d \in 1..10 : DigitChar[d] = c) - 1

RECURSIVE intUpTo(_, _)
intUpTo(s, n) == IF n = 0 THEN 0 ELSE 10 * intUpTo(s, n - 1) + DigitVal(s[n])

int(s) == intUpTo(s, Len(s))

\* the positions of sep in s, with 0 and Len(s) + 1 as the two ends
Cuts(s, sep) == {0, Len(s) + 1} \cup { n \in 1..Len(s) : s[n] = sep }

\* the j-th smallest element of the set of numbers P
Nth(P, j) == CHOOSE p \in P : Cardinality({ q \in P : q < p }) = j - 1

\* s.split(sep)
split(s, sep) ==
    [j \in 1..(Cardinality(Cuts(s, sep)) - 1) |->
        SubSeq(s, Nth(Cuts(s, sep), j) + 1, Nth(Cuts(s, sep), j + 1) - 1)]

IsNumber(s) == s # <<>> /\ \A n \in 1..Len(s) : IsDigit(s[n])

DaysIn(y, m) ==
    IF m \in {4, 6, 9, 11} THEN 30
    ELSE IF m # 2 THEN 31
    ELSE IF y % 4 = 0 /\ (y % 100 # 0 \/ y % 400 = 0) THEN 29 ELSE 28

\* datetime.strptime(s, '%Y-%m-%d').date(): None stands for ValueError
strptime(s) ==
    LET parts == split(s, "-") IN
    IF Len(parts) # 3 THEN None
    ELSE IF ~(IsNumber(parts[1]) /\ IsNumber(parts[2]) /\ IsNumber(parts[3])) THEN None
    ELSE IF Len(parts[1]) # 4 \/ Len(parts[2]) > 2 \/ Len(parts[3]) > 2 THEN None
    ELSE LET y == int(parts[1])
             m == int(parts[2])
             d == int(parts[3])
         IN IF y >= 1 /\ m \in 1..12 /\ d >= 1 /\ d <= DaysIn(y, m)
            THEN Some(<<y, m, d>>) ELSE None

\* the same with .get() defaults in place of the subscripts
extractLenient(article) ==
    [some |-> TRUE,
     headline |-> IF "headline" \in DOMAIN article /\ "main" \in DOMAIN article.headline
                  THEN article.headline.main ELSE <<>>,
     web_url |-> IF "web_url" \in DOMAIN article THEN article.web_url ELSE <<>>,
     pub_date |-> IF "pub_date" \in DOMAIN article
                     /\ strptime(split(article.pub_date, "T")[1]).some
                  THEN strptime(split(article.pub_date, "T")[1]).val
                  ELSE <<1970, 1, 1>>]

\* headline, web_url and pub_date of a document; some is FALSE when one of
\* the subscripts or strptime raises
extract(article) ==
    IF ~("headline" \in DOMAIN article /\ "main" \in DOMAIN article.headline
         /\ "web_url" \in DOMAIN article /\ "pub_date" \in DOMAIN article)
    THEN [some |-> FALSE, headline |-> <<>>, web_url |-> <<>>, pub_date |-> <<>>]
    ELSE LET pub_date == strptime(split(article.pub_date, "T")[1])
         IN [some |-> pub_date.some, headline |-> article.headline.main,
             web_url |-> article.web_url, pub_date |-> pub_date.val]

\* soup.find_all('p', {'class': 'story-body-text story-content'})
find_all(soup) ==
    SelectSeq(soup, LAMBDA el : el.tag = "p"
                                /\ el.class = "story-body-text story-content")

RECURSIVE story_body(_)
story_body(story_pieces) ==
    IF story_pieces = <<>> THEN <<>>
    ELSE Head(story_pieces).text \o story_body(Tail(story_pieces))

\* the record parseNYTResponse appends for the extracted fields and story body
Story(fields, body) ==
    [headline |-> fields.headline, url |-> fields.web_url,
     date |-> fields.pub_date, content |-> body]

\* the same without the test on status
DocsToVisitAnyStatus(c) ==
    IF "response" \in DOMAIN c THEN c.response.docs ELSE <<>>

\* the documents parseNYTResponse iterates over
DocsToVisit(c) == IF c.status = "OK" THEN c.response.docs ELSE <<>>

\* whether evaluating the status test and the docs subscripts raises
ResponseRaises(r) ==
    \/ ~r.decodes
    \/ "status" \notin DOMAIN r.body
    \/ /\ r.body.status = "OK"
       /\ ~("response" \in DOMAIN r.body /\ "docs" \in DOMAIN r.body.response)

(***************************************************************************)
(* The remote side.  A search response is [decodes, body]: whether r.json()*)
(* succeeds, and the decoded dict.  An article page is a sequence of       *)
(* elements [tag, class, text].  server = [from, docs, lead, lat]: the     *)
(* pages before index from all behave as lead says (every request fails,   *)
(* every response has status "ERROR", every response is "OK" with one      *)
(* document whose page is served, or no response is JSON); from index from *)
(* on, every request may                                                   *)
(* fail or return any response of at most docs documents; a blocking call  *)
(* may take lat ticks.                                                     *)
(***************************************************************************)
Doc(j) ==
    [headline |-> [main |-> <<"T", DigitChar[j + 1]>>],
     web_url |-> <<"http://x/", DigitChar[j + 1]>>,
     pub_date |-> <<"2", "0", "2", "0", "-", "0", "1", "-", "0", DigitChar[j + 1],
                    "T", "10:00:00Z">>]

BadDocs(j) ==
    { [web_url |-> Doc(j).web_url, pub_date |-> Doc(j).pub_date],
      [headline |-> [kicker |-> <<"K">>], web_url |-> Doc(j).web_url,
       pub_date |-> Doc(j).pub_date],
      [headline |-> Doc(j).headline, pub_date |-> Doc(j).pub_date],
      [headline |-> Doc(j).headline, web_url |-> Doc(j).web_url],
      [headline |-> Doc(j).headline, web_url |-> Doc(j).web_url,
       pub_date |-> <<"2", "0", "2", "0", "-", "0", "2", "-", "3", "0", "T", "10:00:00Z">>] }

GoodDocs(n) == [j \in 1..n |-> Doc(j)]

\* document lists of at most n documents; a document that raises is the last
\* one, the documents after it are never looked at
DocLists(n) ==
    { GoodDocs(m) : m \in 0..n }
        \cup UNION { { Append(GoodDocs(m - 1), bad) : bad \in BadDocs(m) } : m \in 1..n }

OKBodies(n) == { [status |-> "OK", response |-> [docs |-> ds]] : ds \in DocLists(n) }

ErrorBodies ==
    { [status |-> "ERROR"],
      [status |-> "ERROR", response |-> [docs |-> <<>>]],
      [status |-> "ERROR", response |-> [docs |-> GoodDocs(1)]] }

BrokenResponses ==
    { [decodes |-> FALSE, body |-> [raw |-> <<"<html>">>]],
      [decodes |-> TRUE, body |-> [fault |-> <<"quota">>]],
      [decodes |-> TRUE, body |-> [status |-> "OK"]] }

Responses(n) ==
    { [decodes |-> TRUE, body |-> b] : b \in OKBodies(n) \cup ErrorBodies }
        \cup BrokenResponses

StoryHtml ==
    << [tag |-> "p", class |-> "story-body-text story-content", text |-> <<"Hello ">>],
       [tag |-> "div", class |-> "story-body-text story-content", text |-> <<"ad">>],
       [tag |-> "p", class |-> "summary", text |-> <<"lead">>],
       [tag |-> "p", class |-> "story-body-text story-content", text |-> <<"world.">>] >>

PlainHtml == << [tag |-> "p", class |-> "summary", text |-> <<"lead">>] >>

\* extract and the story body, computed once for every document and every
\* page the remote side serves
AllDocs == UNION { {Doc(j)} \cup BadDocs(j) : j \in 1..MaxDocs }

Extracted == [doc \in AllDocs |-> extract(doc)]

Scraped == [html \in {StoryHtml, PlainHtml} |-> story_body(find_all(html))]

\* whether requests.get of the search request of page p may raise
SearchMayFail(p) == p >= server.from \/ server.lead = "fail"

\* the responses requests.get of the search request of page p may return
SearchResponses(p) ==
    IF p >= server.from THEN Responses(server.docs)
    ELSE IF server.lead = "error"
         THEN { [decodes |-> TRUE, body |-> [status |-> "ERROR", response |-> [docs |-> GoodDocs(1)]]] }
    ELSE IF server.lead = "ok"
         THEN { [decodes |-> TRUE, body |-> [status |-> "OK", response |-> [docs |-> GoodDocs(1)]]] }
    ELSE IF server.lead = "broken"
         THEN { [decodes |-> FALSE, body |-> [raw |-> <<"<html>">>]] }
    ELSE {}

\* whether requests.get of an article of page p may raise
ArticleMayFail(p) == p >= server.from

\* the pages requests.get of an article of page p may return
ArticlePages(p) == IF p >= server.from THEN {StoryHtml, PlainHtml} ELSE {StoryHtml}

\* the time a blocking HTTP call may take; the clock of the model stops at MaxTime
Latencies == {0} \cup { d \in {server.lat} : now + d <= MaxTime }

\* the time sleep(0.1) may take
SleepTimes == {SleepTicks, SleepTicks + server.lat}

(***************************************************************************)
(* issueNYTRequests.                                                       *)
(***************************************************************************)
NoContent == [status |-> "none"]

\* the same without the cap
CappedPagesNoCap(n) == n

CappedPages(n) == IF n > API_MAX_CALLS_PER_DAY THEN API_MAX_CALLS_PER_DAY ELSE n

\* the same without the test i > 0
ShouldThrottleAtZero(p) == p % API_MAX_CALLS_PER_SEC = 0

ShouldThrottle(p) == p % API_MAX_CALLS_PER_SEC = 0 /\ p > 0

Elapsed(t, start) == t - start

\* the same with a sleep that returns at once
AfterSleepStuck(t, d) == t

\* the clock when sleep(0.1) returns
AfterSleep(t, d) == t + d

\* the same with break in place of continue
AfterSearchFailureBreak(p, n) == n

\* the loop index after the except branch of the search request
AfterSearchFailure(p, n) == p + 1

\* the same with break in place of continue
AfterArticleFailureBreak(j, n) == n + 1

\* the same with the request of the document tried again
AfterArticleFailureRetry(j, n) == j

\* the position in the documents after the except branch of the article request
AfterArticleFailure(j, n) == j + 1

\* all_stories + page_stories
AppendPage(all, page_stories) == all \o page_stories

Url == Repr(cur_request, hashOrder)

Start ==
    /\ pc = "start"
    /\ num_pages' = CappedPages(input.num_pages)
    /\ all_stories' = <<>>
    /\ req_start' = now
    /\ i' = 0
    /\ pc' = "loop"
    /\ UNCHANGED <<input, hashOrder, server, now, t_elapse, cur_request, content,
                   k, stories, result, failure, searchLog, articleLog, printed, pageLog>>

LoopHead ==
    /\ pc = "loop"
    /\ i < num_pages
    /\ cur_request' = NYTArticleRequest(input.api_key, input.query, i,
                                        input.begin_date, input.end_date, input.fields)
    /\ IF ShouldThrottle(i)
       THEN t_elapse' = Elapsed(now, req_start) /\ pc' = "wait"
       ELSE t_elapse' = t_elapse /\ pc' = "get"
    /\ UNCHANGED <<input, hashOrder, server, now, num_pages, i, req_start, all_stories,
                   content, k, stories, result, failure, searchLog, articleLog,
                   printed, pageLog>>

PollSleep ==
    /\ pc = "wait"
    /\ t_elapse < OneSecond
    /\ \E d \in SleepTimes :
          /\ now' = AfterSleep(now, d)
          /\ t_elapse' = Elapsed(now', req_start)
    /\ UNCHANGED <<input, hashOrder, server, pc, num_pages, i, req_start, cur_request,
                   all_stories, content, k, stories, result, failure, searchLog,
                   articleLog, printed, pageLog>>

PollExit ==
    /\ pc = "wait"
    /\ ~(t_elapse < OneSecond)
    /\ pc' = "get"
    /\ UNCHANGED <<input, hashOrder, server, now, num_pages, i, req_start, t_elapse,
                   cur_request, all_stories, content, k, stories, result, failure,
                   searchLog, articleLog, printed, pageLog>>

SearchGetFail ==
    /\ pc = "get"
    /\ SearchMayFail(i)
    /\ \E d \in Latencies : now' = now + d
    /\ searchLog' = Append(searchLog, [page |-> i, url |-> Url, at |-> now])
    /\ printed' = Append(printed, [kind |-> "search", page |-> i, url |-> Url])
    /\ pageLog' = Append(pageLog, [page |-> i, fetched |-> FALSE, status |-> "none",
                                   docs |-> <<>>, stories |-> <<>>])
    /\ i' = AfterSearchFailure(i, num_pages)
    /\ pc' = "loop"
    /\ UNCHANGED <<input, hashOrder, server, num_pages, req_start, t_elapse, cur_request,
                   all_stories, content, k, stories, result, failure, articleLog>>

SearchGetOK ==
    /\ pc = "get"
    /\ \E r \in SearchResponses(i), d \in Latencies :
          /\ now' = now + d
          /\ IF ResponseRaises(r)
             THEN /\ pc' = "failed"
                  /\ failure' = "response"
                  /\ UNCHANGED <<content, k, stories>>
             ELSE /\ pc' = "doc"
                  /\ content' = r.body
                  /\ k' = 1
                  /\ stories' = <<>>
                  /\ UNCHANGED failure
    /\ searchLog' = Append(searchLog, [page |-> i, url |-> Url, at |-> now])
    /\ UNCHANGED <<input, hashOrder, server, num_pages, i, req_start, t_elapse,
                   cur_request, all_stories, result, articleLog, printed, pageLog>>

ArticleRaises ==
    /\ pc = "doc"
    /\ k <= Len(DocsToVisit(content))
    /\ ~Extracted[DocsToVisit(content)[k]].some
    /\ pc' = "failed"
    /\ failure' = "document"
    /\ UNCHANGED <<input, hashOrder, server, now, num_pages, i, req_start, t_elapse,
                   cur_request, all_stories, content, k, stories, result, searchLog,
                   articleLog, printed, pageLog>>

ArticleGetFail ==
    /\ pc = "doc"
    /\ k <= Len(DocsToVisit(content))
    /\ ArticleMayFail(i)
    /\ LET article == Extracted[DocsToVisit(content)[k]] IN
          /\ article.some
          /\ articleLog' = Append(articleLog, [page |-> i, doc |-> k, url |-> article.web_url,
                                               ok |-> FALSE, html |-> <<>>])
          /\ printed' = Append(printed, [kind |-> "article", page |-> i, url |-> article.web_url])
    /\ \E d \in Latencies : now' = now + d
    /\ k' = AfterArticleFailure(k, Len(DocsToVisit(content)))
    /\ UNCHANGED <<input, hashOrder, server, pc, num_pages, i, req_start, t_elapse,
                   cur_request, all_stories, content, stories, result, failure,
                   searchLog, pageLog>>

ArticleGetOK ==
    /\ pc = "doc"
    /\ k <= Len(DocsToVisit(content))
    /\ LET article == Extracted[DocsToVisit(content)[k]] IN
          /\ article.some
          /\ \E html \in ArticlePages(i) :
                /\ articleLog' = Append(articleLog, [page |-> i, doc |-> k, url |-> article.web_url,
                                                     ok |-> TRUE, html |-> html])
                /\ stories' = Append(stories, Story(article, Scraped[html]))
    /\ \E d \in Latencies : now' = now + d
    /\ k' = k + 1
    /\ UNCHANGED <<input, hashOrder, server, pc, num_pages, i, req_start, t_elapse,
                   cur_request, all_stories, content, result, failure, searchLog,
                   printed, pageLog>>

PageDone ==
    /\ pc = "doc"
    /\ k > Len(DocsToVisit(content))
    /\ all_stories' = AppendPage(all_stories, stories)
    /\ pageLog' = Append(pageLog, [page |-> i, fetched |-> TRUE, status |-> content.status,
                                   docs |-> IF "response" \in DOMAIN content
                                            THEN content.response.docs ELSE <<>>,
                                   stories |-> stories])
    /\ content' = NoContent
    /\ stories' = <<>>
    /\ k' = 0
    /\ i' = i + 1
    /\ pc' = "loop"
    /\ UNCHANGED <<input, hashOrder, server, now, num_pages, req_start, t_elapse,
                   cur_request, result, failure, searchLog, articleLog, printed>>

Return ==
    /\ pc = "loop"
    /\ ~(i < num_pages)
    /\ result' = Some(all_stories)
    /\ pc' = "done"
    /\ UNCHANGED <<input, hashOrder, server, now, num_pages, i, req_start, t_elapse,
                   cur_request, all_stories, content, k, stories, failure, searchLog,
                   articleLog, printed, pageLog>>

Next ==
    \/ Start
    \/ LoopHead
    \/ PollSleep
    \/ PollExit
    \/ SearchGetFail
    \/ SearchGetOK
    \/ ArticleRaises
    \/ ArticleGetFail
    \/ ArticleGetOK
    \/ PageDone
    \/ Return

(***************************************************************************)
(* Initial states: the state at the call of issueNYTRequests.              *)
(***************************************************************************)
MainFields == Some(<<"headline,pub_date,web_url">>)

\* the orders a hash table may give the keys
Orders(keys) ==
    { p \in [1..Cardinality(keys) -> keys] :
        \A a, b \in 1..Cardinality(keys) : a # b => p[a] # p[b] }

\* an order of the keys other than the order of insertion
HashedOrder == <<"q", "begin_date", "fl", "api-key", "end_date", "page">>

InitLocals ==
    /\ now = 0
    /\ pc = "start"
    /\ num_pages = 0
    /\ i = 0
    /\ req_start = 0
    /\ t_elapse = 0
    /\ cur_request = <<>>
    /\ all_stories = <<>>
    /\ content = NoContent
    /\ k = 0
    /\ stories = <<>>
    /\ result = None
    /\ failure = "none"
    /\ searchLog = <<>>
    /\ articleLog = <<>>
    /\ printed = <<>>
    /\ pageLog = <<>>

\* the index of the first of the last n pages of the run
LastPages(n) ==
    LET attempts == IF input.num_pages > API_MAX_CALLS_PER_DAY
                    THEN API_MAX_CALLS_PER_DAY ELSE input.num_pages
    IN IF attempts > n THEN attempts - n ELSE 0

Init ==
    /\ input \in { [api_key |-> <<"KEY">>, query |-> <<"obama">>, num_pages |-> n,
                    begin_date |-> None, end_date |-> None, fields |-> MainFields] :
                   n \in (-1..MaxPages) \cup {API_MAX_CALLS_PER_SEC + 1, BigNumPages} }
    /\ hashOrder \in { SelectKeys(o, RequestKeys(input.fields, input.begin_date, input.end_date)) :
                        o \in {InsertionOrder, HashedOrder} }
    /\ server \in { [from |-> LastPages(VariedPages), docs |-> MaxDocs, lead |-> t, lat |-> 0] :
                    t \in {"fail", "error", "ok", "broken"} }
    /\ InitLocals

Spec == Init /\ [][Next]_vars

\* runs with slow HTTP calls and sleeps that overshoot
InitTimed ==
    /\ input \in { [api_key |-> <<"KEY">>, query |-> <<"obama">>, num_pages |-> n,
                    begin_date |-> None, end_date |-> None, fields |-> MainFields] :
                   n \in 0..MaxTimedPages }
    /\ hashOrder = SelectKeys(InsertionOrder,
                              RequestKeys(input.fields, input.begin_date, input.end_date))
    /\ server \in { [from |-> LastPages(VariedPages), docs |-> 1, lead |-> t, lat |-> MaxLatency] :
                    t \in {"fail", "error"} }
    /\ InitLocals

SpecTimed == InitTimed /\ [][Next]_vars

\* every blocking call returns and the clock advances
InitLive ==
    /\ InitTimed
    /\ input.num_pages \in {0, 1, API_MAX_CALLS_PER_SEC + 1, MaxTimedPages}

LiveSpec == InitLive /\ [][Next]_vars /\ WF_vars(Next)

\* runs over the arguments of the request builder and the orders of the dict
InitUrl ==
    /\ input \in { [api_key |-> <<"KEY">>, query |-> q, num_pages |-> n,
                    begin_date |-> b, end_date |-> e, fields |-> f] :
                   q \in {<<"obama">>, <<>>},
                   n \in {1, API_MAX_CALLS_PER_SEC + 1},
                   b \in {None, Some(<<2020, 1, 2>>)},
                   e \in {None, Some(<<1999, 12, 31>>)},
                   f \in {None, Some(<<>>), MainFields} }
    /\ hashOrder \in Orders(RequestKeys(input.fields, input.begin_date, input.end_date))
    /\ server = [from |-> IF input.num_pages = 1 THEN 0 ELSE input.num_pages, docs |-> 1,
                 lead |-> "fail", lat |-> 0]
    /\ InitLocals

SpecUrl == InitUrl /\ [][Next]_vars

(***************************************************************************)
(* Vocabulary of the properties.                                           *)
(***************************************************************************)
Ended == pc \in {"done", "failed"}

\* min(numPages, 100), and none when numPages <= 0
ExpectedAttempts ==
    IF input.num_pages <= 0 THEN 0
    ELSE IF input.num_pages < API_MAX_CALLS_PER_DAY THEN input.num_pages
    ELSE API_MAX_CALLS_PER_DAY

PaceIndex(p) == p > 0 /\ p % API_MAX_CALLS_PER_SEC = 0

ArticleGetsOf(p) == SelectSeq(articleLog, LAMBDA g : g.page = p)

SearchReportsOf(p) == SelectSeq(printed, LAMBDA m : m.kind = "search" /\ m.page = p)

LacksField(doc) ==
    \/ "headline" \notin DOMAIN doc
    \/ "main" \notin DOMAIN doc.headline
    \/ "web_url" \notin DOMAIN doc
    \/ "pub_date" \notin DOMAIN doc

RECURSIVE ConcatFetched(_)
ConcatFetched(log) ==
    IF log = <<>> THEN <<>>
    ELSE (IF Head(log).fetched THEN Head(log).stories ELSE <<>>) \o ConcatFetched(Tail(log))

\* the text of the matching paragraphs of the two pages the site serves
ExpectedContent(html) ==
    IF html = StoryHtml THEN <<"Hello ", "world.">> ELSE <<>>

\* the record a well-formed document Doc(j) gives
ExpectedRecord(g) ==
    [headline |-> <<"T", DigitChar[g.doc + 1]>>, url |-> g.url,
     date |-> <<2020, 1, g.doc>>, content |-> ExpectedContent(g.html)]

(***************************************************************************)
(* C1: no more than API_MAX_CALLS_PER_SEC search requests are issued in    *)
(* any rolling one-second window: of any six consecutive requests the last *)
(* is issued at least one second after the first.                          *)
(***************************************************************************)
C1_RollingWindow ==
    \A a, b \in 1..Len(searchLog) :
        b - a = API_MAX_CALLS_PER_SEC => searchLog[b].at - searchLog[a].at >= OneSecond

(***************************************************************************)
(* C2, as stated: unless a document is malformed, a run that has ended has *)
(* made exactly min(numPages, 100) search requests, for the pages 0, 1,    *)
(* ... in increasing order, each once.                                     *)
(***************************************************************************)
C2_AttemptsUnlessBadDocument ==
    /\ \A n \in 1..Len(searchLog) : searchLog[n].page = n - 1
    /\ (Ended /\ failure # "document") => Len(searchLog) = ExpectedAttempts

(***************************************************************************)
(* C2, amended: unless a document or a search response is malformed, a run *)
(* that has ended has made exactly min(numPages, 100) search requests, for *)
(* the pages 0, 1, ... in increasing order, each once, whether the request *)
(* failed or not; no run makes more, and a run over the cap returns.       *)
(***************************************************************************)
C2_AttemptsUnlessMalformed ==
    /\ \A n \in 1..Len(searchLog) : searchLog[n].page = n - 1
    /\ Len(searchLog) <= ExpectedAttempts
    /\ Len(pageLog) <= Len(searchLog)
    /\ (Ended /\ failure = "none") => (pc = "done" /\ Len(searchLog) = ExpectedAttempts)

C2_Witness ==
    /\ pc = "done"
    /\ input.num_pages = BigNumPages
    /\ Len(searchLog) = API_MAX_CALLS_PER_DAY
    /\ pageLog[1].fetched
    /\ ~pageLog[API_MAX_CALLS_PER_DAY].fetched

(***************************************************************************)
(* C3: a search request that fails with a transport error contributes no   *)
(* records, is reported once and the loop goes on with the next page; the  *)
(* sequence returned is the concatenation, in page order, of the results   *)
(* of the pages whose request succeeded, and every page was attempted.     *)
(***************************************************************************)
C3_FailedPageInv ==
    /\ \A n \in 1..Len(pageLog) :
          ~pageLog[n].fetched =>
              /\ pageLog[n].stories = <<>>
              /\ Len(SearchReportsOf(pageLog[n].page)) = 1
              /\ ArticleGetsOf(pageLog[n].page) = <<>>
    /\ \A n \in 1..Len(pageLog) :
          pageLog[n].fetched => SearchReportsOf(pageLog[n].page) = <<>>
    /\ pc = "done" =>
          /\ result.some
          /\ result.val = ConcatFetched(pageLog)
          /\ Len(pageLog) = ExpectedAttempts
          /\ \A n \in 1..Len(pageLog) : pageLog[n].page = n - 1 /\ searchLog[n].page = n - 1

C3_FailedPageStep ==
    (pc = "get" /\ Len(printed') > Len(printed)) =>
        /\ all_stories' = all_stories
        /\ Len(printed') = Len(printed) + 1
        /\ pc' = "loop"
        /\ i' = i + 1
        /\ failure' = "none"

C3_SkipFailedPage == [](C3_FailedPageInv) /\ [][C3_FailedPageStep]_vars

C3_Witness ==
    /\ pc = "done"
    /\ Len(pageLog) = 2
    /\ ~pageLog[1].fetched
    /\ pageLog[2].fetched
    /\ pageLog[2].stories # <<>>
    /\ result.val = pageLog[2].stories

(***************************************************************************)
(* C4: a page whose status is not "OK" gives no records whatever its docs  *)
(* contain, raises nothing, issues no article request, and the loop goes   *)
(* on with the next page.                                                  *)
(***************************************************************************)
C4_NotOKInv ==
    /\ (pc = "doc" /\ content.status # "OK") =>
          stories = <<>> /\ ArticleGetsOf(i) = <<>>
    /\ \A n \in 1..Len(pageLog) :
          (pageLog[n].fetched /\ pageLog[n].status # "OK") =>
              pageLog[n].stories = <<>> /\ ArticleGetsOf(pageLog[n].page) = <<>>

C4_NotOKStep ==
    (pc = "doc" /\ content.status # "OK") =>
        /\ pc' = "loop"
        /\ i' = i + 1
        /\ all_stories' = all_stories
        /\ articleLog' = articleLog
        /\ printed' = printed

C4_NotOKIsEmpty == [](C4_NotOKInv) /\ [][C4_NotOKStep]_vars

C4_Witness ==
    /\ Len(pageLog) >= 1
    /\ pageLog[1].fetched
    /\ pageLog[1].status = "ERROR"
    /\ pageLog[1].docs # <<>>
    /\ Len(searchLog) = 2
    /\ articleLog = <<>>

(***************************************************************************)
(* C5: a completed "OK" page gives one record per document whose article   *)
(* request succeeded, in response order; a document whose request failed   *)
(* gives no record and the documents after it are still processed; a page  *)
(* without matching paragraphs gives a record with empty content.          *)
(***************************************************************************)
C5_OneRecordPerFetchedArticle ==
    \A n \in 1..Len(pageLog) :
        (pageLog[n].fetched /\ pageLog[n].status = "OK") =>
            LET gets == ArticleGetsOf(pageLog[n].page)
                good == SelectSeq(gets, LAMBDA g : g.ok)
            IN /\ Len(gets) = Len(pageLog[n].docs)
               /\ \A j \in 1..Len(gets) : gets[j].doc = j
               /\ Len(pageLog[n].stories) = Len(good)
               /\ \A j \in 1..Len(good) : pageLog[n].stories[j] = ExpectedRecord(good[j])

C5_Witness ==
    /\ Len(pageLog) >= 1
    /\ pageLog[1].fetched
    /\ pageLog[1].status = "OK"
    /\ Len(pageLog[1].docs) = 2
    /\ Len(articleLog) >= 2
    /\ ~articleLog[1].ok
    /\ articleLog[2].ok
    /\ articleLog[2].html = PlainHtml
    /\ Len(pageLog[1].stories) = 1
    /\ pageLog[1].stories[1].content = <<>>

(***************************************************************************)
(* C6: a document of an "OK" page that lacks headline.main, web_url or     *)
(* pub_date ends the run in failure at that document: no request is issued *)
(* after it, no step follows and nothing is returned.                      *)
(***************************************************************************)
C6_AtBadDocument ==
    /\ pc = "doc"
    /\ content.status = "OK"
    /\ k <= Len(content.response.docs)
    /\ LacksField(content.response.docs[k])

C6_FatalStep ==
    /\ C6_AtBadDocument =>
          /\ pc' = "failed"
          /\ failure' = "document"
          /\ searchLog' = searchLog
          /\ articleLog' = articleLog
          /\ all_stories' = all_stories
    /\ pc = "failed" => UNCHANGED vars

C6_FatalDocument == [](pc = "failed" => ~result.some) /\ [][C6_FatalStep]_vars

C6_Witness ==
    /\ pc = "failed"
    /\ failure = "document"
    /\ LacksField(content.response.docs[k])
    /\ all_stories # <<>>
    /\ stories # <<>>
    /\ ~result.some

(***************************************************************************)
(* Reading a rendered URL back: the parameters after "?", split at "&" and *)
(* "=".                                                                    *)
(***************************************************************************)
RECURSIVE ParseParts(_)
ParseParts(parts) ==
    IF parts = <<>> THEN <<>>
    ELSE <<split(Head(parts), "=")>> \o ParseParts(Tail(parts))

\* the parts key=value of the URL, each as <<key, value>>
UrlParams(url) == ParseParts(split(split(url, "?")[2], "&"))

RECURSIVE KeysOf(_)
KeysOf(params) ==
    IF params = <<>> THEN <<>> ELSE <<Head(params)[1][1]>> \o KeysOf(Tail(params))

UrlKeys(url) == KeysOf(UrlParams(url))

IsDecimalOf(v, n, width) ==
    /\ IsNumber(v)
    /\ Len(v) >= width
    /\ (Len(v) > width => v[1] # "0")
    /\ int(v) = n

IsDateOf(v, d) ==
    /\ Len(v) = 8
    /\ IsDecimalOf(SubSeq(v, 1, 4), d[1], 4)
    /\ IsDecimalOf(SubSeq(v, 5, 6), d[2], 2)
    /\ IsDecimalOf(SubSeq(v, 7, 8), d[3], 2)

UrlValuesRight(url, page) ==
    LET params == UrlParams(url) IN
    /\ split(url, "?")[1] = NYT_API_URL
    /\ \A n \in 1..Len(params) :
          /\ Len(params[n]) = 2
          /\ CASE params[n][1] = <<"api-key">> -> params[n][2] = input.api_key
               [] params[n][1] = <<"q">> -> params[n][2] = input.query
               [] params[n][1] = <<"page">> -> IsDecimalOf(params[n][2], page, 1)
               [] params[n][1] = <<"fl">> -> params[n][2] = input.fields.val
               [] params[n][1] = <<"begin_date">> ->
                      IsDateOf(params[n][2], input.begin_date.val)
               [] params[n][1] = <<"end_date">> ->
                      IsDateOf(params[n][2], input.end_date.val)
               [] OTHER -> FALSE

\* the newest search request: every request is the newest one when it is issued
Newest == searchLog[Len(searchLog)]

\* the URL printed with a failure is the URL that was requested
SameRendering ==
    (printed # <<>> /\ printed[Len(printed)].kind = "search") =>
        printed[Len(printed)].url = searchLog[printed[Len(printed)].page + 1].url

(***************************************************************************)
(* C7, as stated: every rendered URL lists its parameters in the order     *)
(* api-key, q, page, fl, begin_date, end_date, the first three with the    *)
(* supplied values and each of the others present exactly when it was      *)
(* supplied; two renderings of the same request agree.                     *)
(***************************************************************************)
C7_InsertionOrderUrl ==
    /\ searchLog # <<>> =>
          /\ UrlKeys(Newest.url) =
                 SelectKeys(InsertionOrder,
                            {"api-key", "q", "page"}
                                \cup (IF input.fields.some THEN {"fl"} ELSE {})
                                \cup (IF input.begin_date.some THEN {"begin_date"} ELSE {})
                                \cup (IF input.end_date.some THEN {"end_date"} ELSE {}))
          /\ UrlValuesRight(Newest.url, Newest.page)
    /\ SameRendering

(***************************************************************************)
(* C7, amended: every rendered URL has one key=value part for each of      *)
(* api-key, q and page, with the supplied values, and one for each of fl,  *)
(* begin_date, end_date that was supplied and is not empty, and no other;  *)
(* the parts come in the order of the dict, the same for every request of  *)
(* the run, and two renderings of the same request agree.                  *)
(***************************************************************************)
C7_DictOrderUrl ==
    /\ searchLog # <<>> =>
          LET keys == UrlKeys(Newest.url) IN
          /\ Range(keys) = {"api-key", "q", "page"}
                 \cup (IF input.fields.some /\ input.fields.val # <<>> THEN {"fl"} ELSE {})
                 \cup (IF input.begin_date.some THEN {"begin_date"} ELSE {})
                 \cup (IF input.end_date.some THEN {"end_date"} ELSE {})
          /\ \A a, b \in 1..Len(keys) : a # b => keys[a] # keys[b]
          /\ keys = UrlKeys(searchLog[1].url)
          /\ UrlValuesRight(Newest.url, Newest.page)
    /\ SameRendering

C7_Witness ==
    /\ Len(searchLog) = API_MAX_CALLS_PER_SEC + 1
    /\ UrlKeys(searchLog[1].url) = <<"q", "begin_date", "api-key", "end_date", "page">>
    /\ input.fields = Some(<<>>)
    /\ input.query = <<>>
    /\ Len(printed) >= 2

(***************************************************************************)
(* C8: the pacing epoch is read once and never reset; the request of a     *)
(* page whose index is a nonzero multiple of API_MAX_CALLS_PER_SEC is not  *)
(* issued before one second has passed since the epoch, and at every other *)
(* index the limiter does not wait.                                        *)
(***************************************************************************)
C8_PacingInv ==
    /\ \A n \in 1..Len(searchLog) :
          PaceIndex(searchLog[n].page) => searchLog[n].at - req_start >= OneSecond
    /\ pc = "wait" => PaceIndex(i)
    /\ (pc = "get" /\ PaceIndex(i)) => now - req_start >= OneSecond

C8_PacingStep ==
    /\ pc # "start" => req_start' = req_start
    /\ pc = "start" => req_start' = now
    /\ (pc = "loop" /\ ~PaceIndex(i)) => pc' # "wait"
    /\ (pc = "loop" /\ i < num_pages /\ PaceIndex(i)) => pc' = "wait"
    /\ (pc = "wait" /\ now - req_start < OneSecond) => (pc' = "wait" /\ now' > now)

C8_EpochPacing == [](C8_PacingInv) /\ [][C8_PacingStep]_vars

C8_Witness ==
    /\ input.num_pages = 11
    /\ Len(searchLog) = 11
    /\ searchLog[5].at - req_start < OneSecond
    /\ searchLog[6].at - req_start >= OneSecond
    /\ searchLog[11].at = searchLog[6].at

(***************************************************************************)
(* C9: after the search request of a page succeeds with status "OK", one   *)
(* article request is issued per document, in response order and without   *)
(* retry, all before the search request of the next page; no article       *)
(* request is issued for a page whose search request failed.               *)
(***************************************************************************)
C9_ArticleGetsInv ==
    /\ \A n \in 1..Len(pageLog) :
          LET gets == ArticleGetsOf(pageLog[n].page) IN
          IF pageLog[n].fetched /\ pageLog[n].status = "OK"
          THEN /\ Len(gets) = Len(pageLog[n].docs)
               /\ \A j \in 1..Len(gets) :
                     gets[j].doc = j /\ gets[j].url = pageLog[n].docs[j].web_url
          ELSE gets = <<>>
    /\ (pc = "doc" /\ content.status = "OK") =>
          LET gets == ArticleGetsOf(i) IN
          /\ Len(gets) = k - 1
          /\ \A j \in 1..Len(gets) :
                gets[j].doc = j /\ gets[j].url = content.response.docs[j].web_url
    /\ \A a, b \in 1..Len(articleLog) : a < b => articleLog[a].page <= articleLog[b].page

C9_SequentialStep ==
    /\ Len(searchLog') > Len(searchLog) =>
          /\ articleLog' = articleLog
          /\ \A n \in 1..Len(articleLog) : articleLog[n].page < searchLog'[Len(searchLog')].page
          /\ Len(pageLog) = Len(searchLog)
    /\ Len(articleLog') > Len(articleLog) =>
          /\ searchLog' = searchLog
          /\ Len(articleLog') = Len(articleLog) + 1
          /\ articleLog'[Len(articleLog')].page = searchLog[Len(searchLog)].page
          /\ Len(pageLog) = Len(searchLog) - 1

C9_SequentialPages == [](C9_ArticleGetsInv) /\ [][C9_SequentialStep]_vars

C9_Witness ==
    /\ Len(searchLog) = 2
    /\ Len(pageLog) = 1
    /\ pageLog[1].fetched
    /\ pageLog[1].status = "OK"
    /\ Len(ArticleGetsOf(0)) = Len(pageLog[1].docs)
    /\ pc = "doc"
    /\ content.status = "OK"
    /\ Len(content.response.docs) = 2
    /\ k = 2
    /\ Len(articleLog) = 2
    /\ articleLog[2].page = 1

(***************************************************************************)
(* C10: when the clock advances and every blocking call returns, every run *)
(* ends, returning or in failure, after at most min(numPages, 100) page    *)
(* iterations.                                                             *)
(***************************************************************************)
C10_Terminates ==
    /\ <>Ended
    /\ [](i <= ExpectedAttempts /\ Len(pageLog) <= ExpectedAttempts)

C10_Witness ==
    /\ Ended
    /\ Len(pageLog) >= API_MAX_CALLS_PER_SEC
    /\ t_elapse >= OneSecond
    /\ now > OneSecond + SleepTicks
====
